---- MODULE Spec2Model ----
(***************************************************************************)
(* Model of security/encrypt_config.py: a script that draws a key and an   *)
(* IV, reads config.json, pads and encrypts the text with AES in CBC mode  *)
(* and writes IV + ciphertext to config.enc.  One action per statement of  *)
(* the script; the file system and the terminal are part of the state, and *)
(* the script may be run again after it has ended.                         *)
(***************************************************************************)
EXTENDS Integers, Sequences, FiniteSets

\* ---------------------------------------------------------------- bounds
\* Longest run of ASCII characters in a modelled config.json.
MaxFill == 16
\* Number of times the script is started.
MaxRuns == 2

\* ------------------------------------------------------ program constants
\* The block size pad() and CBC work with (line 8).
BLOCK == 16
\* os.urandom(32), line 11.
KEYLEN == 32
\* get_random_bytes(16), line 12.
IVLEN == 16

\* ------------------------------------------------------------ byte values
\* A byte that is known by its value v.
Byte(v) == [k |-> "raw", v |-> v, dep |-> <<>>]

Bytes(s) == [i \in 1..Len(s) |-> Byte(s[i])]

\* What the random source may return: n bytes grown from a seed.
RandomBytes(n, seed) == [i \in 1..n |-> Byte((seed * 17 + i) % 256)]

\* The seeds the model draws from; key and IV share the seed 1.
KeySeeds == {1, 2}
IvSeeds == {1, 3}

\* ------------------------------------------------------------------ text
\* str.encode('utf-8') of one code point.
Utf8Char(c) ==
    IF c < 128 THEN <<c>>
    ELSE IF c < 2048 THEN <<192 + (c \div 64), 128 + (c % 64)>>
    ELSE IF c < 65536 THEN
        <<224 + (c \div 4096), 128 + ((c \div 64) % 64), 128 + (c % 64)>>
    ELSE <<240 + (c \div 262144), 128 + ((c \div 4096) % 64),
           128 + ((c \div 64) % 64), 128 + (c % 64)>>

\* str.encode('utf-8'): a text is a sequence of code points.
RECURSIVE encode(_)
encode(text) ==
    IF text = <<>> THEN <<>>
    ELSE Bytes(Utf8Char(Head(text))) \o encode(Tail(text))

\* pad(data), lines 7-9: len() counts characters, chr(pad_len) is the code
\* point pad_len.
pad_len(data) == BLOCK - (Len(data) % BLOCK)

pad(data) == data \o [i \in 1..pad_len(data) |-> pad_len(data)]

\* -------------------------------------------------------------- AES / CBC
\* AES.new(key, AES.MODE_CBC, iv) accepts 16, 24 or 32 key bytes and a
\* 16-byte IV.
ValidKey(key) == Len(key) \in {16, 24, 32}

ValidIv(iv) == Len(iv) = BLOCK

\* The j-th byte of the ciphertext block that ends the plaintext prefix
\* `upto`: in CBC a block depends on the key, the IV and every plaintext
\* block up to its own.  The cipher is a symbolic injective function.
CtByte(key, iv, upto, j) == [k |-> "ct", v |-> j, dep |-> <<key, iv, upto>>]

\* cipher.encrypt(plain) in CBC mode, for Len(plain) a multiple of BLOCK.
CBCEncrypt(key, iv, plain) ==
    [i \in 1..Len(plain) |->
        CtByte(key, iv, SubSeq(plain, 1, BLOCK * (((i - 1) \div BLOCK) + 1)),
               ((i - 1) % BLOCK) + 1)]

\* ------------------------------------------------------------ the inputs
Fill(n) == [i \in 1..n |-> 97]

\* A character of two, three and four UTF-8 bytes.
Wide == {233, 8364, 128512}

\* ASCII text of every length up to MaxFill, and text that ends in a wide
\* character, at the start of a block and at its end.
Texts ==
    {Fill(n) : n \in 0..MaxFill}
        \cup {Fill(n) \o <<c>> : n \in {0, BLOCK - 1}, c \in Wide}

NoFile == [kind |-> "missing", text |-> <<>>]

ConfigFiles ==
    {NoFile, [kind |-> "binary", text |-> <<>>]}
        \cup {[kind |-> "text", text |-> t] : t \in Texts}

Absent == [exists |-> FALSE, bytes |-> <<>>]

NoCipher == [key |-> <<>>, iv |-> <<>>]

Message == "Encrypted. Store your key securely."

\* ----------------------------------------------------------------- state
VARIABLES
    configJson,  \* the file config.json
    configEnc,   \* the file config.enc
    pc,          \* the statement the process is at
    key, iv,     \* lines 11, 12
    data,        \* line 15
    cipher,      \* line 17
    padded,      \* the argument of cipher.encrypt, line 18
    enc,         \* line 18
    buf,         \* the write buffer of the file object of line 20
    stdout,      \* what the process has printed
    stderr,      \* the traceback of the process, if any
    exitCode,    \* the exit status of the last process that ended (-1: none)
    run,         \* how many times the script has been started
    rngLog,      \* what the random source has returned to the process
    sealLog,     \* the key and IV of every encryption cipher.encrypt has done
    before       \* config.enc as it was when the running process started

vars == <<configJson, configEnc, pc, key, iv, data, cipher, padded, enc, buf,
          stdout, stderr, exitCode, run, rngLog, sealLog, before>>

fsVars == <<configJson, configEnc>>
memVars == <<key, iv, data, cipher, padded, enc, buf>>
ttyVars == <<stdout, stderr, exitCode>>
logVars == <<run, rngLog, sealLog, before>>

Init ==
    /\ configJson \in ConfigFiles
    /\ configEnc = Absent
    /\ pc = "genkey"
    /\ key = <<>> /\ iv = <<>> /\ data = <<>>
    /\ cipher = NoCipher
    /\ padded = <<>> /\ enc = <<>> /\ buf = <<>>
    /\ stdout = <<>> /\ stderr = <<>>
    /\ exitCode = -1
    /\ run = 1
    /\ rngLog = <<>>
    /\ sealLog = <<>>
    /\ before = Absent

\* An exception nothing catches: the interpreter writes the traceback,
\* which names the line and the exception, and the process ends.
Traceback(line, exc) == [line |-> line, exc |-> exc, shows |-> <<>>]

Raise(line, exc) ==
    /\ pc' = "crashed"
    /\ stderr' = Append(stderr, Traceback(line, exc))

\* line 11: key = os.urandom(32)
GenKey ==
    /\ pc = "genkey"
    /\ \E s \in KeySeeds :
        /\ key' = RandomBytes(KEYLEN, s)
        /\ rngLog' = Append(rngLog, RandomBytes(KEYLEN, s))
    /\ pc' = "geniv"
    /\ UNCHANGED <<fsVars, iv, data, cipher, padded, enc, buf, ttyVars,
                   run, sealLog, before>>

\* GenIv with a constant IV in place of a call of the random source.
GenIvStatic ==
    /\ pc = "geniv"
    /\ iv' = [i \in 1..IVLEN |-> Byte(0)]
    /\ pc' = "open_in"
    /\ UNCHANGED <<fsVars, key, data, cipher, padded, enc, buf, ttyVars, logVars>>

\* line 12: iv = get_random_bytes(16)
GenIv ==
    /\ pc = "geniv"
    /\ \E s \in IvSeeds :
        /\ iv' = RandomBytes(IVLEN, s)
        /\ rngLog' = Append(rngLog, RandomBytes(IVLEN, s))
    /\ pc' = "open_in"
    /\ UNCHANGED <<fsVars, key, data, cipher, padded, enc, buf, ttyVars,
                   run, sealLog, before>>

\* OpenInMissing with the exception swallowed: the run goes on with no data.
OpenInMissingSwallowed ==
    /\ pc = "open_in"
    /\ configJson.kind = "missing"
    /\ pc' = "new"
    /\ UNCHANGED <<fsVars, memVars, ttyVars, logVars>>

\* line 14: open('config.json', 'r') of a file that is not there.
OpenInMissing ==
    /\ pc = "open_in"
    /\ configJson.kind = "missing"
    /\ Raise(14, "FileNotFoundError")
    /\ UNCHANGED <<fsVars, memVars, stdout, exitCode, logVars>>

\* line 14: the file is there and may not be read.
OpenInDenied ==
    /\ pc = "open_in"
    /\ configJson.kind # "missing"
    /\ Raise(14, "PermissionError")
    /\ UNCHANGED <<fsVars, memVars, stdout, exitCode, logVars>>

\* line 14: the file is opened.
OpenIn ==
    /\ pc = "open_in"
    /\ configJson.kind # "missing"
    /\ pc' = "read"
    /\ UNCHANGED <<fsVars, memVars, ttyVars, logVars>>

\* line 15: data = f.read() of bytes that are no text.
ReadUndecodable ==
    /\ pc = "read"
    /\ configJson.kind = "binary"
    /\ Raise(15, "UnicodeDecodeError")
    /\ UNCHANGED <<fsVars, memVars, stdout, exitCode, logVars>>

\* line 15: data = f.read()
Read ==
    /\ pc = "read"
    /\ configJson.kind = "text"
    /\ data' = configJson.text
    /\ pc' = "new"
    /\ UNCHANGED <<fsVars, key, iv, cipher, padded, enc, buf, ttyVars, logVars>>

\* line 17: cipher = AES.new(key, AES.MODE_CBC, iv)
NewCipher ==
    /\ pc = "new"
    /\ IF ValidKey(key) /\ ValidIv(iv)
       THEN /\ cipher' = [key |-> key, iv |-> iv]
            /\ pc' = "pad"
            /\ UNCHANGED stderr
       ELSE /\ Raise(17, "ValueError")
            /\ UNCHANGED cipher
    /\ UNCHANGED <<fsVars, key, iv, data, padded, enc, buf, stdout, exitCode,
                   logVars>>

\* line 18, the argument: pad(data).encode('utf-8')
Pad ==
    /\ pc = "pad"
    /\ padded' = encode(pad(data))
    /\ pc' = "encrypt"
    /\ UNCHANGED <<fsVars, key, iv, data, cipher, enc, buf, ttyVars, logVars>>

\* line 18: cipher.encrypt of an argument that is no whole number of blocks.
EncryptUnaligned ==
    /\ pc = "encrypt"
    /\ Len(padded) % BLOCK # 0
    /\ Raise(18, "ValueError")
    /\ UNCHANGED <<fsVars, memVars, stdout, exitCode, logVars>>

\* Encrypt that also stores its result in config.enc.
EncryptToDisk ==
    /\ pc = "encrypt"
    /\ Len(padded) % BLOCK = 0
    /\ enc' = CBCEncrypt(cipher.key, cipher.iv, padded)
    /\ configEnc' = [exists |-> TRUE, bytes |-> enc']
    /\ sealLog' = Append(sealLog, [run |-> run, key |-> cipher.key, iv |-> cipher.iv])
    /\ pc' = "open_out"
    /\ UNCHANGED <<configJson, key, iv, data, cipher, padded, buf, ttyVars,
                   run, rngLog, before>>

\* line 18: enc = cipher.encrypt(...)
Encrypt ==
    /\ pc = "encrypt"
    /\ Len(padded) % BLOCK = 0
    /\ enc' = CBCEncrypt(cipher.key, cipher.iv, padded)
    /\ sealLog' = Append(sealLog, [run |-> run, key |-> cipher.key, iv |-> cipher.iv])
    /\ pc' = "open_out"
    /\ UNCHANGED <<fsVars, key, iv, data, cipher, padded, buf, ttyVars,
                   run, rngLog, before>>

\* OpenOutDenied that has emptied the file before it fails.
OpenOutDeniedTruncates ==
    /\ pc = "open_out"
    /\ configEnc' = [exists |-> TRUE, bytes |-> <<>>]
    /\ Raise(20, "PermissionError")
    /\ UNCHANGED <<configJson, memVars, stdout, exitCode, logVars>>

\* line 20: open('config.enc', 'wb') is refused; the file is not touched.
OpenOutDenied ==
    /\ pc = "open_out"
    /\ Raise(20, "PermissionError")
    /\ UNCHANGED <<fsVars, memVars, stdout, exitCode, logVars>>

\* line 20: open('config.enc', 'wb') creates the file or truncates it.
OpenOut ==
    /\ pc = "open_out"
    /\ configEnc' = [exists |-> TRUE, bytes |-> <<>>]
    /\ buf' = <<>>
    /\ pc' = "write"
    /\ UNCHANGED <<configJson, key, iv, data, cipher, padded, enc, ttyVars,
                   logVars>>

\* Artifact with the key stored in front.
ArtifactWithKey == key \o iv \o enc

\* Artifact with the ciphertext first.
ArtifactSwapped == enc \o iv

\* The artifact: the argument of f.write, line 21.
Artifact == iv \o enc

\* line 21: f.write(iv + enc); the bytes go to the file object's buffer.
Write ==
    /\ pc = "write"
    /\ buf' = buf \o Artifact
    /\ pc' = "close_out"
    /\ UNCHANGED <<fsVars, key, iv, data, cipher, padded, enc, ttyVars, logVars>>

\* How much of the buffer may have reached the file when the flush fails.
PartialLens(b) == {0, Len(b) - 1}

\* line 20, leaving the with block: the flush fails part-way.
CloseOutFails ==
    /\ pc = "close_out"
    /\ \E n \in PartialLens(buf) :
        configEnc' = [exists |-> TRUE, bytes |-> configEnc.bytes \o SubSeq(buf, 1, n)]
    /\ Raise(20, "OSError")
    /\ UNCHANGED <<configJson, memVars, stdout, exitCode, logVars>>

\* line 20, leaving the with block: the buffer is flushed, the file closed.
CloseOut ==
    /\ pc = "close_out"
    /\ configEnc' = [exists |-> TRUE, bytes |-> configEnc.bytes \o buf]
    /\ buf' = <<>>
    /\ pc' = "print"
    /\ UNCHANGED <<configJson, key, iv, data, cipher, padded, enc, ttyVars,
                   logVars>>

\* PrintMessage that also appends a line to config.enc.
PrintMessageIntoFile ==
    /\ pc = "print"
    /\ stdout' = Append(stdout, [text |-> Message, shows |-> <<>>])
    /\ configEnc' = [exists |-> TRUE, bytes |-> Append(configEnc.bytes, Byte(10))]
    /\ pc' = "done"
    /\ UNCHANGED <<configJson, memVars, stderr, exitCode, logVars>>

\* line 23: print("Encrypted. Store your key securely.")
PrintMessage ==
    /\ pc = "print"
    /\ stdout' = Append(stdout, [text |-> Message, shows |-> <<>>])
    /\ pc' = "done"
    /\ UNCHANGED <<fsVars, memVars, stderr, exitCode, logVars>>

\* The process ends: its memory is gone, its exit status is left.
Exit ==
    /\ pc \in {"done", "crashed"}
    /\ exitCode' = IF pc = "done" THEN 0 ELSE 1
    /\ key' = <<>> /\ iv' = <<>> /\ data' = <<>>
    /\ cipher' = NoCipher
    /\ padded' = <<>> /\ enc' = <<>> /\ buf' = <<>>
    /\ pc' = "exited"
    /\ UNCHANGED <<fsVars, stdout, stderr, logVars>>

\* The script is started again, on a fresh terminal.
Start ==
    /\ pc = "exited"
    /\ run < MaxRuns
    /\ run' = run + 1
    /\ before' = configEnc
    /\ stdout' = <<>> /\ stderr' = <<>>
    /\ rngLog' = <<>>
    /\ pc' = "genkey"
    /\ UNCHANGED <<fsVars, memVars, exitCode, sealLog>>

Next ==
    \/ GenKey \/ GenIv
    \/ OpenInMissing \/ OpenInDenied \/ OpenIn
    \/ ReadUndecodable \/ Read
    \/ NewCipher \/ Pad
    \/ EncryptUnaligned \/ Encrypt
    \/ OpenOutDenied \/ OpenOut
    \/ Write
    \/ CloseOutFails \/ CloseOut
    \/ PrintMessage
    \/ Exit \/ Start

Spec == Init /\ [][Next]_vars

\* ------------------------------------------------------- opening (spec 4.1)
\* The source has no decryption: open is the inverse of lines 17-21, as far
\* as the round-trip property needs it.

\* Decryption in CBC mode: the plaintext when ct was made from it under this
\* key and IV, bytes unrelated to it otherwise.
CBCDecrypt(k, v, ct) ==
    IF ct = <<>> THEN <<>>
    ELSE IF /\ ct[Len(ct)].k = "ct"
            /\ ct = CBCEncrypt(k, v, ct[Len(ct)].dep[3])
         THEN ct[Len(ct)].dep[3]
         ELSE [i \in 1..Len(ct) |-> [k |-> "junk", v |-> i, dep |-> <<k, v, ct>>]]

\* The inverse of pad on bytes: the last byte tells how many to drop.
unpad(p) ==
    IF p = <<>> THEN p
    ELSE IF p[Len(p)].k = "raw" /\ p[Len(p)].v \in 1..Len(p)
         THEN SubSeq(p, 1, Len(p) - p[Len(p)].v)
         ELSE p

Open(artifact, k) ==
    IF Len(artifact) < IVLEN + BLOCK
    THEN [err |-> "MalformedArtifact", plain |-> <<>>]
    ELSE [err |-> "none",
          plain |-> unpad(CBCDecrypt(k, SubSeq(artifact, 1, IVLEN),
                                     SubSeq(artifact, IVLEN + 1, Len(artifact))))]

\* ---------------------------------------------------------------- helpers
Contains(hay, needle) ==
    \E o \in 0..(Len(hay) - Len(needle)) :
        SubSeq(hay, o + 1, o + Len(needle)) = needle

\* Every key known to have existed: what the random source returned to this
\* process for a key, and the key of every encryption done so far.
KeysDrawn ==
    {rngLog[i] : i \in {j \in 1..Len(rngLog) : Len(rngLog[j]) = KEYLEN}}
        \cup {sealLog[i].key : i \in 1..Len(sealLog)}

\* The process has called cipher.encrypt (and it returned or raised).
SealAttempted ==
    \/ pc \in {"open_out", "write", "close_out", "print", "done"}
    \/ pc = "crashed" /\ stderr[1].line \in {18, 20}

\* The process has left the with block of lines 20-21.
Written == pc \in {"print", "done"}

\* The statements of lines 14-21.
SealSteps == {"open_in", "read", "new", "pad", "encrypt", "open_out", "write",
              "close_out"}

\* ------------------------------------------------------------------ claims

\* C1 (as stated): for every plaintext P and every valid key K,
\* open(seal(P, K), K) returns exactly P: once the process has called
\* cipher.encrypt on the text of config.json, a ciphertext exists and the
\* artifact opens, under the key, to the UTF-8 bytes of that text.
C1_RoundTrip ==
    SealAttempted =>
        /\ enc # <<>>
        /\ Open(Artifact, key).plain = encode(data)

\* Not a claim: on ASCII text the artifact opens to the text, so Open is the
\* inverse of what lines 17-21 do.
OpenInvertsSealOnAscii ==
    (SealAttempted /\ \A i \in 1..Len(data) : data[i] < 128) =>
        Open(Artifact, key).plain = encode(data)

\* C2: the key is never persisted or displayed: no key of this run or of an
\* earlier encryption is contained in config.enc, in the output or in the
\* traceback, and once the process has ended nothing holds a key any more.
C2_KeyNeverExposed ==
    /\ \A k \in KeysDrawn :
        /\ ~Contains(configEnc.bytes, k)
        /\ \A i \in 1..Len(stdout) : ~Contains(stdout[i].shows, k)
        /\ \A i \in 1..Len(stderr) : ~Contains(stderr[i].shows, k)
    /\ pc = "exited" => key = <<>> /\ cipher = NoCipher

\* A second run has ended with status 0 and left an artifact.
C2_Witness ==
    /\ pc = "exited" /\ exitCode = 0 /\ run = MaxRuns
    /\ Len(configEnc.bytes) > KEYLEN
    /\ KeysDrawn # {}

\* C3 (as stated): the artifact is one format-version byte, the IV, the
\* ciphertext and an authentication tag of some length T >= 1, in this order.
C3_VersionIvCiphertextTag ==
    Written =>
        \E T \in 1..Len(configEnc.bytes) :
            /\ Len(configEnc.bytes) = 1 + IVLEN + Len(enc) + T
            /\ SubSeq(configEnc.bytes, 2, 1 + IVLEN) = iv
            /\ SubSeq(configEnc.bytes, 2 + IVLEN, 1 + IVLEN + Len(enc)) = enc

\* C3 (amended): the artifact in config.enc is the 16-byte IV followed by the
\* CBC ciphertext of the padded text, and nothing else: no version byte in
\* front, no tag behind.
C3_IvThenCiphertext ==
    Written =>
        /\ Len(configEnc.bytes) = IVLEN + Len(enc)
        /\ SubSeq(configEnc.bytes, 1, IVLEN) = iv
        /\ SubSeq(configEnc.bytes, IVLEN + 1, Len(configEnc.bytes)) = enc
        /\ enc = CBCEncrypt(key, iv, encode(pad(data)))
        /\ Len(enc) >= BLOCK

\* An artifact of two ciphertext blocks has been written.
C3_Witness ==
    /\ pc = "done"
    /\ Len(configEnc.bytes) = IVLEN + 2 * BLOCK

\* C5 (as stated): once config.enc has been written, by this run or by an
\* earlier one that ended with status 0, no step changes its bytes.
C5_NeverMutated ==
    [][(Written \/ exitCode = 0) => (configEnc' = configEnc)]_vars

\* C5 (amended): within a run, once config.enc has been written and closed,
\* no later step of that run changes it.
C5_NotMutatedWithinRun ==
    [][Written => (configEnc' = configEnc)]_vars

\* A second run has replaced the artifact of the first by its own.
C5_Witness ==
    /\ pc = "done" /\ run = 2
    /\ before.exists /\ Len(before.bytes) >= IVLEN + BLOCK
    /\ configEnc.bytes = Artifact
    /\ configEnc # before

\* C6 (as stated): no two encryptions made with the same key use the same
\* IV.
C6_NonceUnique ==
    \A i, j \in 1..Len(sealLog) :
        (i < j /\ sealLog[i].key = sealLog[j].key) => sealLog[i].iv # sealLog[j].iv

\* C6 (amended): every encryption uses the key and the IV that the random
\* source returned to the first and the second call of its own run, and a
\* run encrypts at most once.
C6_FreshIvPerSeal ==
    /\ \A i \in 1..Len(sealLog) :
        sealLog[i].run = run =>
            /\ Len(rngLog) = 2
            /\ sealLog[i].key = rngLog[1]
            /\ sealLog[i].iv = rngLog[2]
    /\ \A i, j \in 1..Len(sealLog) : i < j => sealLog[i].run < sealLog[j].run

\* Two runs have encrypted under the same key with the same IV.
C6_Witness ==
    /\ Len(sealLog) = 2
    /\ sealLog[1].key = sealLog[2].key
    /\ sealLog[1].iv = sealLog[2].iv

\* C7 (as stated): sealing, lines 14-21, changes no file.
C7_SealNoSideEffect ==
    [][(pc \in SealSteps) => (configEnc' = configEnc)]_vars

\* C7 (amended): the encryption itself, lines 17-18, changes no file and
\* prints nothing.
C7_EncryptChangesNoFile ==
    [][(pc \in {"new", "pad", "encrypt"}) =>
        (UNCHANGED <<configJson, configEnc, stdout>>)]_vars

\* A second run has encrypted and the artifact of the first is still whole.
C7_Witness ==
    /\ pc = "open_out" /\ run = 2
    /\ enc # <<>>
    /\ before.exists /\ configEnc = before

\* C8 (as stated): no bad input terminates the process.
C8_NeverTerminates == pc # "crashed"

\* The tracebacks a run can end with.
Failures ==
    {Traceback(14, "FileNotFoundError"), Traceback(14, "PermissionError"),
     Traceback(15, "UnicodeDecodeError"), Traceback(18, "ValueError"),
     Traceback(20, "PermissionError"), Traceback(20, "OSError")}

\* C8 (amended): a bad input raises an exception nothing catches: the process
\* ends with one traceback that names the line and the exception, with exit
\* status 1 and without the message; a run goes past a statement only when
\* the statement succeeded; the key always has 32 bytes.
C8_UncaughtErrorEndsRun ==
    /\ pc = "crashed" => Len(stderr) = 1 /\ stderr[1] \in Failures /\ stdout = <<>>
    /\ pc = "exited" => (exitCode = 1 <=> stderr # <<>>) /\ (exitCode = 0 <=> stderr = <<>>)
    /\ pc \in {"new", "pad", "encrypt", "open_out", "write", "close_out", "print", "done"} =>
        configJson.kind = "text" /\ data = configJson.text
    /\ pc \in {"pad", "encrypt", "open_out", "write", "close_out", "print", "done"} =>
        Len(cipher.key) = KEYLEN /\ Len(cipher.iv) = IVLEN
    /\ pc \in {"open_out", "write", "close_out", "print", "done"} =>
        Len(padded) % BLOCK = 0 /\ Len(enc) = Len(padded)

\* A run without config.json has ended with a traceback and status 1.
C8_Witness ==
    /\ pc = "exited" /\ exitCode = 1
    /\ stderr = <<Traceback(14, "FileNotFoundError")>>

\* C9 (as stated): pad appends between 1 and 16 characters, and the bytes
\* handed to cipher.encrypt have a length that is a positive multiple of 16.
C9_PaddedIsWholeBlocks ==
    padded # <<>> =>
        /\ Len(pad(data)) - Len(data) \in 1..BLOCK
        /\ Len(padded) > 0
        /\ Len(padded) % BLOCK = 0

\* C10 (as stated): a run that fails leaves config.enc as it was before the
\* run and prints no message; the message is printed only once config.enc
\* holds the whole IV and the whole ciphertext.
C10_FailureLeavesFile ==
    /\ pc = "crashed" => configEnc = before /\ stdout = <<>>
    /\ (stdout # <<>> /\ pc = "done") => configEnc.bytes = Artifact

\* C10 (amended): a run that fails before config.enc is open for writing
\* (lines 14-18, or the open of line 20) leaves config.enc as it was; a run
\* that fails while writing leaves config.enc with a proper prefix of the
\* artifact, possibly empty; no failed run prints the message, and the
\* message is printed only once config.enc holds the whole IV and the whole
\* ciphertext.
C10_FailureBeforeWriteLeavesFile ==
    /\ (pc = "crashed" /\ stderr[1] # Traceback(20, "OSError")) => configEnc = before
    /\ (pc = "crashed" /\ stderr[1] = Traceback(20, "OSError")) =>
        /\ configEnc.exists
        /\ Len(configEnc.bytes) < Len(Artifact)
        /\ configEnc.bytes = SubSeq(Artifact, 1, Len(configEnc.bytes))
    /\ pc = "crashed" => stdout = <<>>
    /\ stdout # <<>> =>
        /\ pc \in {"done", "exited"}
        /\ Len(configEnc.bytes) >= IVLEN + BLOCK
        /\ pc = "done" => configEnc.bytes = Artifact /\ Len(enc) >= BLOCK

\* A second run has failed in the flush and cut the artifact of the first.
C10_Witness ==
    /\ pc = "crashed" /\ run = 2
    /\ stderr[1] = Traceback(20, "OSError")
    /\ Len(before.bytes) >= IVLEN + BLOCK
    /\ configEnc.bytes = SubSeq(Artifact, 1, Len(Artifact) - 1)

====
